---- MODULE Spec2Model ----
(***************************************************************************)
(* The note workflow of the Dashboard component (fetch, create, update,    *)
(* delete, summarize), the Note Editor and the Note Card, running against  *)
(* the hosted notes table.                                                 *)
(*                                                                         *)
(* Every store or service call is asynchronous: the handler sends a        *)
(* request, the store executes it at some later moment, and the handler    *)
(* resumes when the response arrives.  Requests in flight are kept in the  *)
(* bag ops; the store executing a request and the handler consuming the    *)
(* response are separate steps, so any interleaving of the two with other  *)
(* user actions can occur.                                                 *)
(*                                                                         *)
(* Strings are sequences of one-character strings.  An absent summary      *)
(* (null, undefined or the empty string, which the code never tells        *)
(* apart: every test on it is a truthiness test) is the empty sequence.    *)
(* Rows of the table are kept in updated_at-descending order, which is     *)
(* the order the select returns them in; the timestamps themselves are     *)
(* not represented.  The Dashboard is mounted only for a signed-in user    *)
(* (Index.tsx:27), so the `if (!user) return` guards never fire.           *)
(*                                                                         *)
(* toast holds the title of the notification raised by the step that led   *)
(* to the state, and "none" when that step raised none.                    *)
(*                                                                         *)
(* Typing into the editor has no effect but on the two fields, so a save   *)
(* attempt is one step: the fields take the values the user leaves in them *)
(* and handleSave runs on these.                                           *)
(*                                                                         *)
(* Spec is the Dashboard with its store.  SearchSpec is the search box     *)
(* over lists of notes with richer texts than Spec produces.  EndpointSpec *)
(* is the summarize-note function by itself, for every request it may be   *)
(* sent and every answer of the completions endpoint; its requests are     *)
(* kept in ops as well.                                                    *)
(***************************************************************************)
EXTENDS Integers, Sequences, FiniteSets, Bags, TLC

\* ------------------------------------------------------------- bounds
\* Number of rows the store ever creates (ids 1..MaxNotes).
MaxNotes == 2
\* Number of requests that may be in flight at the same time.
MaxOps == 2
\* Number of requests the Dashboard sends after the fetch of its mount.
MaxRequests == 3

\* ------------------------------------------------------------- strings
Whitespace == {" "}

\* What the user may type into the title and the content field.
RawTitles == { <<>>, <<" ", "A">> }
RawContents == { <<" ">>, <<"a", " ">> }

\* What the summarization service may return in the summary field.
Summaries == { <<"s">>, <<"t">> }

UntitledNote == <<"U", "n", "t", "i", "t", "l", "e", "d", " ", "N", "o", "t", "e">>

RECURSIVE TrimStart(_)
TrimStart(s) ==
  IF s = <<>> THEN s
  ELSE IF Head(s) \in Whitespace THEN TrimStart(Tail(s)) ELSE s

RECURSIVE TrimEnd(_)
TrimEnd(s) ==
  IF s = <<>> THEN s
  ELSE IF s[Len(s)] \in Whitespace THEN TrimEnd(SubSeq(s, 1, Len(s) - 1)) ELSE s

\* String.prototype.trim
Trim(s) == TrimEnd(TrimStart(s))

\* Fault: the negation is missing.
IsBlank_Negated(s) == Trim(s) # <<>>

\* !s.trim()
IsBlank(s) == Trim(s) = <<>>

UpperCaseLetters ==
  <<"A", "B", "C", "D", "E", "F", "G", "H", "I", "J", "K", "L", "M",
    "N", "O", "P", "Q", "R", "S", "T", "U", "V", "W", "X", "Y", "Z">>
LowerCaseLetters ==
  <<"a", "b", "c", "d", "e", "f", "g", "h", "i", "j", "k", "l", "m",
    "n", "o", "p", "q", "r", "s", "t", "u", "v", "w", "x", "y", "z">>

\* Fault: the text is compared as it is.
ToLowerCase_Identity(s) == s

\* The lower-case letter of every upper-case letter.
LowerCaseOf ==
  [ch \in { UpperCaseLetters[k] : k \in 1..Len(UpperCaseLetters) } |->
     LowerCaseLetters[CHOOSE k \in 1..Len(UpperCaseLetters) : UpperCaseLetters[k] = ch]]

\* String.prototype.toLowerCase
ToLowerCase(s) ==
  [i \in 1..Len(s) |-> IF s[i] \in DOMAIN LowerCaseOf THEN LowerCaseOf[s[i]] ELSE s[i]]

RECURSIVE Includes(_, _)
\* String.prototype.includes: term occurs in text from some position on.
Includes(text, term) ==
  IF Len(term) > Len(text) THEN FALSE
  ELSE IF SubSeq(text, 1, Len(term)) = term THEN TRUE
  ELSE Includes(Tail(text), term)

\* ------------------------------------------------------------- notes
NoId == 0
NoSummary == <<>>

Note(id, title, content, summary) ==
  [id |-> id, title |-> title, content |-> content, summary |-> summary]

\* editingNote === null
NoNote == Note(NoId, <<>>, <<>>, NoSummary)

Ids(rows) == { rows[i].id : i \in 1..Len(rows) }

RowOf(rows, id) == rows[CHOOSE i \in 1..Len(rows) : rows[i].id = id]

RECURSIVE Without(_, _)
\* rows.filter(r => r.id !== id)
Without(rows, id) ==
  IF rows = <<>> THEN <<>>
  ELSE IF Head(rows).id = id THEN Without(Tail(rows), id)
       ELSE <<Head(rows)>> \o Without(Tail(rows), id)

\* ------------------------------------------------------------- the notes table
\* insert({title, content, user_id}).select().single(): the new row, with a
\* fresh id and a null summary, is the most recently updated one.
StoreInsertRow(rows, id, title, content) ==
  <<Note(id, title, content, NoSummary)>> \o rows

\* Fault: the update creates the row it does not find.
StoreUpdateFields_Upsert(rows, id, title, content) ==
  IF id \in Ids(rows)
  THEN <<[RowOf(rows, id) EXCEPT !.title = title, !.content = content]>>
         \o Without(rows, id)
  ELSE <<Note(id, title, content, NoSummary)>> \o rows

\* update({title, content}).eq('id', id): only title and content are written;
\* the trigger refreshes updated_at, so the row becomes the first one.  A
\* missing row leaves the table as it is.
StoreUpdateFields(rows, id, title, content) ==
  IF id \in Ids(rows)
  THEN <<[RowOf(rows, id) EXCEPT !.title = title, !.content = content]>>
         \o Without(rows, id)
  ELSE rows

\* Fault: the update of the summary creates the row it does not find.
StoreUpdateSummary_Upsert(rows, id, summary) ==
  IF id \in Ids(rows)
  THEN <<[RowOf(rows, id) EXCEPT !.summary = summary]>> \o Without(rows, id)
  ELSE <<Note(id, <<>>, <<>>, summary)>> \o rows

\* update({summary}).eq('id', id): zero rows affected when the row is gone.
StoreUpdateSummary(rows, id, summary) ==
  IF id \in Ids(rows)
  THEN <<[RowOf(rows, id) EXCEPT !.summary = summary]>> \o Without(rows, id)
  ELSE rows

\* delete().eq('id', id)
StoreDeleteRow(rows, id) == Without(rows, id)

\* ------------------------------------------------------------- state
VARIABLES
  store,              \* rows of the notes table, most recently updated first
  nextId,             \* the id the next insert generates
  notes,              \* Dashboard: the in-memory list
  searchTerm,         \* Dashboard: the content of the search box
  loading,            \* Dashboard: first fetch not yet finished
  isEditorOpen,       \* Dashboard: the editor modal is rendered
  editingNote,        \* Dashboard: the note handed to the editor, or NoNote
  savingNote,         \* Dashboard: the saving flag
  generatingSummary,  \* Dashboard: the generating marker, a note id or NoId
  title,              \* NoteEditor: the title field
  content,            \* NoteEditor: the content field
  toast,              \* the title of the notification the last step raised
  requests,           \* number of requests sent since the mount
  ops                 \* bag of the requests in flight

vars == <<store, nextId, notes, searchTerm, loading, isEditorOpen, editingNote, savingNote,
          generatingSummary, title, content, toast, requests, ops>>

dashboard == <<notes, searchTerm, loading, isEditorOpen, editingNote, savingNote,
               generatingSummary, title, content>>

\* A request in flight.  phase: "invoking" (summarize: waiting for the
\* summarization service), "sent" (waiting for the store), "done" (the store
\* has answered, the handler has not resumed yet).  result: "ok", "error"
\* ({error} returned) or "throw" (the call rejected); "none" before "done".
\* data: the rows the store returned.
Op(kind, phase, result, noteId, t, c, summary, data) ==
  [kind |-> kind, phase |-> phase, result |-> result, noteId |-> noteId,
   title |-> t, content |-> c, summary |-> summary, data |-> data]

FetchOp == Op("fetch", "sent", "none", NoId, <<>>, <<>>, NoSummary, <<>>)

InFlight == BagToSet(ops)
Add(o) == ops (+) SetToBag({o})
Replace(o, o2) == (ops (-) SetToBag({o})) (+) SetToBag({o2})
Remove(o) == ops (-) SetToBag({o})

\* A request leaves, is answered by the store, is consumed by its handler.
Send(o) == ops' = Add(o) /\ requests' = requests + 1
Answer(o, o2) == ops' = Replace(o, o2) /\ requests' = requests
Finish(o) == ops' = Remove(o) /\ requests' = requests

\* The step raises no notification.
Quiet == toast' = "none"

CanSend == BagCardinality(ops) < MaxOps /\ requests < MaxRequests

Answered(o, result, data) == [o EXCEPT !.phase = "done", !.result = result, !.data = data]

\* What earlier sessions may have left in the table: rows as saveNote and
\* generateSummary write them.
InitialStores ==
  { <<>>,
    << Note(2, <<"A">>, <<"a">>, NoSummary), Note(1, UntitledNote, <<"a">>, <<"s">>) >> }

Init ==
  /\ store \in InitialStores
  /\ nextId = Len(store) + 1
  /\ notes = <<>>
  /\ searchTerm = <<>>
  /\ loading = TRUE
  /\ isEditorOpen = FALSE
  /\ editingNote = NoNote
  /\ savingNote = FALSE
  /\ generatingSummary = NoId
  /\ title = <<>>
  /\ content = <<>>
  /\ toast = "none"
  /\ requests = 0
  /\ ops = SetToBag({FetchOp})   \* the mount effect has called fetchNotes

\* ------------------------------------------------------------- fetch
\* The [user] effect runs again and calls fetchNotes.
UserChanged ==
  /\ CanSend
  /\ Send(FetchOp)
  /\ UNCHANGED <<store, nextId, dashboard>>
  /\ Quiet

\* The store executes the select, or the call fails.
StoreSelect(o, result) ==
  /\ o.kind = "fetch" /\ o.phase = "sent"
  /\ Answer(o, Answered(o, result, IF result = "ok" THEN store ELSE <<>>))
  /\ UNCHANGED <<store, nextId, dashboard>>
  /\ Quiet

\* setNotes(data || []) in the else branch only
NotesAfterFetch(prev, result, data) == IF result = "ok" THEN data ELSE prev

ToastAfterFetch(result) ==
  CASE result = "ok" -> "none"
    [] result = "error" -> "Error fetching notes"
    [] result = "throw" -> "Error"

\* fetchNotes resumes after the await.
FetchReturns(o) ==
  /\ o.kind = "fetch" /\ o.phase = "done"
  /\ notes' = NotesAfterFetch(notes, o.result, o.data)
  /\ toast' = ToastAfterFetch(o.result)
  /\ loading' = FALSE
  /\ Finish(o)
  /\ UNCHANGED <<searchTerm, store, nextId, isEditorOpen, editingNote, savingNote,
                 generatingSummary, title, content>>

\* ------------------------------------------------------------- editor
\* Everything below the spinner is rendered only once loading is false.
Rendered == ~loading

\* handleCreateNote.  The editor's [note] effect clears the fields unless the
\* editor is already open on a new note, where nothing changes.
HandleCreateNote ==
  /\ Rendered
  /\ editingNote' = NoNote
  /\ isEditorOpen' = TRUE
  /\ IF isEditorOpen /\ editingNote = NoNote
     THEN UNCHANGED <<title, content>>
     ELSE title' = <<>> /\ content' = <<>>
  /\ UNCHANGED <<searchTerm, store, nextId, notes, loading, savingNote, generatingSummary,
                 requests, ops>>
  /\ Quiet

\* handleEditNote(note), from the card of notes[i]; the editor's [note] effect
\* seeds the fields from the note.
HandleEditNote(i) ==
  /\ Rendered
  /\ editingNote' = notes[i]
  /\ isEditorOpen' = TRUE
  /\ title' = notes[i].title
  /\ content' = notes[i].content
  /\ UNCHANGED <<searchTerm, store, nextId, notes, loading, savingNote, generatingSummary,
                 requests, ops>>
  /\ Quiet

\* onCancel: the editor is unmounted, its fields are gone.
OnCancel ==
  /\ isEditorOpen' = FALSE
  /\ editingNote' = NoNote
  /\ title' = <<>>
  /\ content' = <<>>
  /\ UNCHANGED <<searchTerm, store, nextId, notes, loading, savingNote, generatingSummary,
                 requests, ops>>
  /\ Quiet

\* The close button of the header, or Escape in either field.
CloseEditor == isEditorOpen /\ OnCancel

\* The Cancel button of the footer, disabled while isLoading.
ClickCancel == isEditorOpen /\ ~savingNote /\ OnCancel

\* Fault: the fields are tested before trimming.
SaveRejected_Untrimmed(t, c) == t = <<>> /\ c = <<>>

\* if (!trimmedTitle && !trimmedContent) return
SaveRejected(t, c) == IsBlank(t) /\ IsBlank(c)

\* Fault: no placeholder.
PayloadTitle_NoDefault(t) == Trim(t)

\* trimmedTitle || 'Untitled Note'
PayloadTitle(t) == IF Trim(t) = <<>> THEN UntitledNote ELSE Trim(t)

\* content: trimmedContent
PayloadContent(c) == Trim(c)

\* saveNote(noteData) up to its await: the saving flag is set and the update
\* (payload with an id) or the insert is sent.
SaveNote(id, t, c) ==
  /\ CanSend
  /\ savingNote' = TRUE
  /\ Send(Op(IF id # NoId THEN "update" ELSE "insert", "sent", "none",
             id, t, c, NoSummary, <<>>))
  /\ Quiet
  /\ UNCHANGED <<searchTerm, store, nextId, notes, loading, isEditorOpen, editingNote,
                 generatingSummary>>

\* handleSave, with t and c in the title and the content field.
HandleSave(t, c) ==
  /\ title' = t
  /\ content' = c
  /\ IF SaveRejected(t, c)
     THEN /\ Quiet
          /\ UNCHANGED <<searchTerm, store, nextId, notes, loading, isEditorOpen, editingNote,
                         savingNote, generatingSummary, requests, ops>>
     ELSE SaveNote(editingNote.id, PayloadTitle(t), PayloadContent(c))

\* What the fields may hold when the user saves: what was typed, or what the
\* [note] effect put there.
TitleInputs == RawTitles \cup {title}
ContentInputs == RawContents \cup {content}

\* The Save button with t and c in the fields; it is disabled while isLoading
\* or while both fields are blank.
ClickSave(t, c) ==
  /\ isEditorOpen
  /\ ~(savingNote \/ (IsBlank(t) /\ IsBlank(c)))
  /\ HandleSave(t, c)

\* Ctrl+Enter in either field, with t and c in the fields.
CtrlEnter(t, c) == isEditorOpen /\ HandleSave(t, c)

\* ------------------------------------------------------------- save
\* The store executes the insert, or the call fails.
StoreInsert(o, result) ==
  /\ o.kind = "insert" /\ o.phase = "sent"
  /\ IF result = "ok"
     THEN /\ nextId <= MaxNotes
          /\ store' = StoreInsertRow(store, nextId, o.title, o.content)
          /\ nextId' = nextId + 1
          /\ Answer(o, Answered(o, "ok", <<store'[1]>>))
     ELSE /\ Answer(o, Answered(o, "error", <<>>))
          /\ UNCHANGED <<store, nextId>>
  /\ UNCHANGED dashboard
  /\ Quiet

\* The store executes the update, or the call fails.  .single() turns an
\* update that matched no row into an error.
StoreUpdate(o, result) ==
  /\ o.kind = "update" /\ o.phase = "sent"
  /\ IF result = "ok"
     THEN /\ store' = StoreUpdateFields(store, o.noteId, o.title, o.content)
          /\ Answer(o, IF o.noteId \in Ids(store')
                        THEN Answered(o, "ok", <<RowOf(store', o.noteId)>>)
                        ELSE Answered(o, "error", <<>>))
     ELSE /\ Answer(o, Answered(o, "error", <<>>))
          /\ UNCHANGED store
  /\ UNCHANGED <<nextId, dashboard>>
  /\ Quiet

\* { ...note, ...data }
Merge(note, data) ==
  [f \in DOMAIN note \cup DOMAIN data |-> IF f \in DOMAIN data THEN data[f] ELSE note[f]]

\* Fault: the created row is appended.
NotesAfterSave_Append(prev, o) ==
  IF o.result # "ok" THEN prev
  ELSE IF o.kind = "insert" THEN prev \o <<o.data[1]>>
  ELSE [i \in 1..Len(prev) |->
          IF prev[i].id = o.noteId THEN Merge(prev[i], o.data[1]) ELSE prev[i]]

\* setNotes(prev => [data, ...prev]) after an insert, setNotes(prev =>
\* prev.map(...)) after an update; neither runs when error was thrown.
NotesAfterSave(prev, o) ==
  IF o.result # "ok" THEN prev
  ELSE IF o.kind = "insert" THEN <<o.data[1]>> \o prev
  ELSE [i \in 1..Len(prev) |->
          IF prev[i].id = o.noteId THEN Merge(prev[i], o.data[1]) ELSE prev[i]]

ToastAfterSave(o) ==
  IF o.result # "ok" THEN "Error saving note"
  ELSE IF o.kind = "insert" THEN "Note created" ELSE "Note updated"

\* Fault: the editor is closed in the finally block.
EditorClosedBySave_Always(result) == TRUE

\* setIsEditorOpen(false); setEditingNote(null) are the last statements of
\* the try block.
EditorClosedBySave(result) == result = "ok"

\* saveNote resumes after the await.
SaveReturns(o) ==
  /\ o.kind \in {"insert", "update"} /\ o.phase = "done"
  /\ notes' = NotesAfterSave(notes, o)
  /\ toast' = ToastAfterSave(o)
  /\ IF EditorClosedBySave(o.result)
     THEN /\ isEditorOpen' = FALSE
          /\ editingNote' = NoNote
          /\ title' = <<>>
          /\ content' = <<>>
     ELSE UNCHANGED <<isEditorOpen, editingNote, title, content>>
  /\ savingNote' = FALSE
  /\ Finish(o)
  /\ UNCHANGED <<searchTerm, store, nextId, loading, generatingSummary>>

\* ------------------------------------------------------------- delete
\* deleteNote(noteId) up to its await, from the card of notes[i].
DeleteNote(i) ==
  /\ Rendered
  /\ CanSend
  /\ Send(Op("delete", "sent", "none", notes[i].id, <<>>, <<>>, NoSummary, <<>>))
  /\ UNCHANGED <<store, nextId, dashboard>>
  /\ Quiet

\* The store executes the delete, or the call fails.
StoreDelete(o, result) ==
  /\ o.kind = "delete" /\ o.phase = "sent"
  /\ store' = IF result = "ok" THEN StoreDeleteRow(store, o.noteId) ELSE store
  /\ Answer(o, Answered(o, result, <<>>))
  /\ UNCHANGED <<nextId, dashboard>>
  /\ Quiet

\* Fault: the entry is removed whatever the store answered.
NotesAfterDelete_Optimistic(prev, o) == Without(prev, o.noteId)

\* setNotes(prev => prev.filter(note => note.id !== noteId)), skipped when
\* error was thrown
NotesAfterDelete(prev, o) ==
  IF o.result = "ok" THEN Without(prev, o.noteId) ELSE prev

ToastAfterDelete(o) ==
  IF o.result = "ok" THEN "Note deleted" ELSE "Error deleting note"

\* deleteNote resumes after the await.
DeleteReturns(o) ==
  /\ o.kind = "delete" /\ o.phase = "done"
  /\ notes' = NotesAfterDelete(notes, o)
  /\ toast' = ToastAfterDelete(o)
  /\ Finish(o)
  /\ UNCHANGED <<searchTerm, store, nextId, loading, isEditorOpen, editingNote, savingNote,
                 generatingSummary, title, content>>

\* ------------------------------------------------------------- summarize
\* generateSummary(noteId, title, content) up to its first await.
GenerateSummary(noteId, t, c) ==
  IF IsBlank(c)
  THEN /\ toast' = "Cannot summarize"
       /\ UNCHANGED <<searchTerm, store, nextId, notes, loading, isEditorOpen, editingNote,
                      savingNote, generatingSummary, title, content, requests, ops>>
  ELSE /\ CanSend
       /\ generatingSummary' = noteId
       /\ Send(Op("summarize", "invoking", "none", noteId, t, c, NoSummary, <<>>))
       /\ UNCHANGED <<searchTerm, store, nextId, notes, loading, isEditorOpen, editingNote,
                      savingNote, title, content>>
       /\ Quiet

\* isGeneratingSummary={generatingSummary === note.id}
IsGeneratingSummary(note) == generatingSummary = note.id

\* The card's handleSummarize, from the summarize button of notes[i], which
\* is disabled while isGeneratingSummary.
HandleSummarize(i) ==
  /\ Rendered
  /\ ~IsGeneratingSummary(notes[i])
  /\ IF IsBlank(notes[i].content)
     THEN /\ toast' = "Cannot summarize"
          /\ UNCHANGED <<searchTerm, store, nextId, notes, loading, isEditorOpen, editingNote,
                         savingNote, generatingSummary, title, content, requests, ops>>
     ELSE GenerateSummary(notes[i].id, notes[i].title, notes[i].content)

\* Fault: the marker is not reset.
MarkerAfterSummary_Kept(marker) == marker

\* finally { setGeneratingSummary(null) }
MarkerAfterSummary(marker) == NoId

\* functions.invoke returned an error ("error"), returned data without a
\* summary ("nosummary") or rejected ("throw"): the catch block and the finally
\* block run.
InvokeFails(o, why) ==
  /\ o.kind = "summarize" /\ o.phase = "invoking"
  /\ toast' = "Failed to generate summary"
  /\ generatingSummary' = MarkerAfterSummary(generatingSummary)
  /\ Finish(o)
  /\ UNCHANGED <<searchTerm, store, nextId, notes, loading, isEditorOpen, editingNote,
                 savingNote, title, content>>

\* functions.invoke returned {summary}: the update of the row is sent.
InvokeReturns(o, summary) ==
  /\ o.kind = "summarize" /\ o.phase = "invoking"
  /\ Answer(o, [o EXCEPT !.phase = "sent", !.summary = summary])
  /\ UNCHANGED <<store, nextId, dashboard>>
  /\ Quiet

\* The store executes the update of the summary, or the call fails.
StoreSummary(o, result) ==
  /\ o.kind = "summarize" /\ o.phase = "sent"
  /\ store' = IF result = "ok" THEN StoreUpdateSummary(store, o.noteId, o.summary)
              ELSE store
  /\ Answer(o, Answered(o, result, <<>>))
  /\ UNCHANGED <<nextId, dashboard>>
  /\ Quiet

\* Fault: the list is updated before updateError is tested.
NotesAfterSummary_Always(prev, o) ==
  [i \in 1..Len(prev) |->
     IF prev[i].id = o.noteId THEN [prev[i] EXCEPT !.summary = o.summary]
     ELSE prev[i]]

\* setNotes(prev => prev.map(note => note.id === noteId ? { ...note, summary }
\* : note)), skipped when updateError was thrown
NotesAfterSummary(prev, o) ==
  IF o.result # "ok" THEN prev
  ELSE [i \in 1..Len(prev) |->
          IF prev[i].id = o.noteId THEN [prev[i] EXCEPT !.summary = o.summary]
          ELSE prev[i]]

ToastAfterSummary(o) ==
  IF o.result = "ok" THEN "Summary generated!" ELSE "Failed to generate summary"

\* generateSummary resumes after the second await.
SummarizeReturns(o) ==
  /\ o.kind = "summarize" /\ o.phase = "done"
  /\ notes' = NotesAfterSummary(notes, o)
  /\ toast' = ToastAfterSummary(o)
  /\ generatingSummary' = MarkerAfterSummary(generatingSummary)
  /\ Finish(o)
  /\ UNCHANGED <<searchTerm, store, nextId, loading, isEditorOpen, editingNote, savingNote,
                 title, content>>

\* ------------------------------------------------------------- search
\* What the user may type into the search box.
SearchTerms == { <<>>, <<"n", "O">> }

\* The predicate of notes.filter: the lower-cased title, content or (when it
\* is truthy) summary includes the lower-cased term.
Matches(note, term) ==
  \/ Includes(ToLowerCase(note.title), ToLowerCase(term))
  \/ Includes(ToLowerCase(note.content), ToLowerCase(term))
  \/ (note.summary # NoSummary /\ Includes(ToLowerCase(note.summary), ToLowerCase(term)))

\* const filteredNotes = notes.filter(...)
FilteredNotes(list, term) == SelectSeq(list, LAMBDA note : Matches(note, term))

\* The positions in the list of the notes a card is rendered for.
Cards == { i \in 1..Len(notes) : Matches(notes[i], searchTerm) }

\* The 'No matching notes' branch of the grid.
NoMatchingNotes ==
  /\ Rendered
  /\ Len(FilteredNotes(notes, searchTerm)) = 0
  /\ ~(Len(notes) = 0)

\* onChange of the search box.
SetSearchTerm(term) ==
  /\ Rendered
  /\ term # searchTerm
  /\ searchTerm' = term
  /\ UNCHANGED <<store, nextId, notes, loading, isEditorOpen, editingNote, savingNote,
                 generatingSummary, title, content, requests, ops>>
  /\ Quiet

\* ------------------------------------------------------------- next-state relation
Outcomes == {"ok", "error"}

Next ==
  \/ UserChanged
  \/ \E o \in InFlight, r \in Outcomes \cup {"throw"} : StoreSelect(o, r)
  \/ \E o \in InFlight : FetchReturns(o)
  \/ HandleCreateNote
  \/ \E term \in SearchTerms : SetSearchTerm(term)
  \/ \E i \in Cards : HandleEditNote(i)
  \/ CloseEditor
  \/ ClickCancel
  \/ \E t \in TitleInputs, c \in ContentInputs : ClickSave(t, c)
  \/ \E t \in TitleInputs, c \in ContentInputs : CtrlEnter(t, c)
  \/ \E o \in InFlight, r \in Outcomes : StoreInsert(o, r)
  \/ \E o \in InFlight, r \in Outcomes : StoreUpdate(o, r)
  \/ \E o \in InFlight : SaveReturns(o)
  \/ \E i \in Cards : DeleteNote(i)
  \/ \E o \in InFlight, r \in Outcomes : StoreDelete(o, r)
  \/ \E o \in InFlight : DeleteReturns(o)
  \/ \E i \in Cards : HandleSummarize(i)
  \/ \E o \in InFlight, why \in {"error", "nosummary", "throw"} : InvokeFails(o, why)
  \/ \E o \in InFlight, s \in Summaries : InvokeReturns(o, s)
  \/ \E o \in InFlight, r \in Outcomes : StoreSummary(o, r)
  \/ \E o \in InFlight : SummarizeReturns(o)

Spec == Init /\ [][Next]_vars

\* ------------------------------------------------------------- the search alone
\* Notes as the list may hold them once the fetch has returned.
SearchPool ==
  { Note(1, <<"N", "o">>, <<>>, NoSummary),
    Note(1, <<"x">>, <<"a", "n", "o">>, NoSummary),
    Note(1, <<"x">>, <<"o", "n">>, NoSummary),
    Note(1, <<"x">>, <<"n">>, <<"x", "N", "O">>),
    Note(1, <<"n">>, <<"o">>, <<"n", " ", "o">>),
    Note(1, <<"O", "n", "O">>, <<"x">>, NoSummary),
    Note(2, <<"x", "n">>, <<"o", "x">>, <<"s">>),
    Note(2, UntitledNote, <<"o">>, NoSummary),
    Note(2, <<"n">>, <<"o">>, NoSummary),
    Note(2, <<"O", "N">>, <<"n", " ", "o">>, <<"o", "n">>),
    Note(2, <<"o">>, <<"O", "n", "o">>, NoSummary),
    Note(2, <<"x">>, <<"x">>, <<"n", "o">>) }

SearchLists ==
  {<<>>} \cup { <<n>> : n \in SearchPool }
         \cup { <<p[1], p[2]>> : p \in { q \in SearchPool \X SearchPool : q[1].id # q[2].id } }

\* The Dashboard at rest with some list fetched and the search box empty.
SearchInit ==
  /\ notes \in SearchLists
  /\ store = notes
  /\ nextId = MaxNotes + 1
  /\ searchTerm = <<>>
  /\ loading = FALSE
  /\ isEditorOpen = FALSE
  /\ editingNote = NoNote
  /\ savingNote = FALSE
  /\ generatingSummary = NoId
  /\ title = <<>>
  /\ content = <<>>
  /\ toast = "none"
  /\ requests = 0
  /\ ops = EmptyBag

SearchNext == \E term \in SearchTerms : SetSearchTerm(term)

SearchSpec == SearchInit /\ [][SearchNext]_vars

\* ------------------------------------------------------------- the summarize-note function
\* The headers every response is built with.
CorsHeaders == {"Access-Control-Allow-Origin", "Access-Control-Allow-Headers"}
JsonHeaders == CorsHeaders \cup {"Content-Type"}

\* The body of a request: whether req.json() parses it, whether the object
\* has a content field, and the field (the empty string when it has none).
Body(parses, hasContent, c) == [parses |-> parses, hasContent |-> hasContent, content |-> c]

Bodies ==
  { Body(FALSE, FALSE, <<>>), Body(TRUE, FALSE, <<>>),
    Body(TRUE, TRUE, <<>>), Body(TRUE, TRUE, <<"a">>) }

Methods == {"OPTIONS", "POST"}

\* What the completions endpoint may do: the fetch rejects ("throw"), the
\* response is not ok ("notok"), its body is not JSON ("badjson") or has no
\* choices array ("nochoicesfield"), the array is empty ("nochoices"), the
\* first choice has no message ("nomessage"), or it carries a completion,
\* which may be the empty string.
Upstream(outcome, completion) == [outcome |-> outcome, completion |-> completion]

NoUpstream == Upstream("none", <<>>)

UpstreamAnswers ==
  { Upstream(w, <<>>) :
      w \in {"throw", "notok", "badjson", "nochoicesfield", "nochoices", "nomessage"} }
  \cup { Upstream("completion", s) : s \in Summaries \cup {<<>>} }

\* A request to the function and, once phase is "responded", its response:
\* status, whether the body is {error} and the summary of a {summary} body.
\* called: the completions endpoint has been called for it.
Exchange(method, body) ==
  [kind |-> "http", phase |-> "received", method |-> method, body |-> body,
   called |-> FALSE, upstream |-> NoUpstream, status |-> 0, error |-> FALSE,
   summary |-> NoSummary, headers |-> {}]

\* new Response(body, { status, headers })
Respond(o, status, error, summary, headers) ==
  [o EXCEPT !.phase = "responded", !.status = status, !.error = error,
            !.summary = summary, !.headers = headers]

\* Fault: only a missing field is refused.
ContentRequired_MissingOnly(body) == ~body.hasContent

\* if (!content)
ContentRequired(body) == ~body.hasContent \/ body.content = <<>>

\* data.choices[0]?.message?.content
Completion(u) == IF u.outcome = "completion" THEN u.completion ELSE <<>>

\* A request reaches the function.
Arrive(method, body) ==
  /\ CanSend
  /\ Send(Exchange(method, body))
  /\ UNCHANGED <<store, nextId, dashboard>>
  /\ Quiet

\* The handler up to the await of the fetch: the preflight is answered, a
\* body that does not parse goes to the catch block, a request without
\* content is refused, and for any other the completions endpoint is called.
Serve(o) ==
  /\ o.kind = "http" /\ o.phase = "received"
  /\ Answer(o, IF o.method = "OPTIONS" THEN Respond(o, 200, FALSE, NoSummary, CorsHeaders)
               ELSE IF ~o.body.parses THEN Respond(o, 500, TRUE, NoSummary, JsonHeaders)
               ELSE IF ContentRequired(o.body) THEN Respond(o, 400, TRUE, NoSummary, JsonHeaders)
               ELSE [o EXCEPT !.phase = "upstream", !.called = TRUE])
  /\ UNCHANGED <<store, nextId, dashboard>>
  /\ Quiet

\* The handler from the await of the fetch on.
Served(o, u) ==
  IF u.outcome \in {"throw", "badjson", "nochoicesfield"}
  THEN Respond(o, 500, TRUE, NoSummary, JsonHeaders)
  ELSE IF u.outcome = "notok" THEN Respond(o, 500, TRUE, NoSummary, JsonHeaders)
  ELSE IF Completion(u) = <<>> THEN Respond(o, 500, TRUE, NoSummary, JsonHeaders)
  ELSE Respond(o, 200, FALSE, Completion(u), JsonHeaders)

\* The completions endpoint answers, or the call fails.
UpstreamResponds(o, u) ==
  /\ o.kind = "http" /\ o.phase = "upstream"
  /\ Answer(o, Served([o EXCEPT !.upstream = u], u))
  /\ UNCHANGED <<store, nextId, dashboard>>
  /\ Quiet

\* The response is delivered to the caller.
Deliver(o) ==
  /\ o.kind = "http" /\ o.phase = "responded"
  /\ Finish(o)
  /\ UNCHANGED <<store, nextId, dashboard>>
  /\ Quiet

\* The function alone, the Dashboard at rest.
EndpointInit ==
  /\ store = <<>>
  /\ nextId = 1
  /\ notes = <<>>
  /\ searchTerm = <<>>
  /\ loading = FALSE
  /\ isEditorOpen = FALSE
  /\ editingNote = NoNote
  /\ savingNote = FALSE
  /\ generatingSummary = NoId
  /\ title = <<>>
  /\ content = <<>>
  /\ toast = "none"
  /\ requests = 0
  /\ ops = EmptyBag

EndpointNext ==
  \/ \E m \in Methods, b \in Bodies : Arrive(m, b)
  \/ \E o \in InFlight : Serve(o)
  \/ \E o \in InFlight, u \in UpstreamAnswers : UpstreamResponds(o, u)
  \/ \E o \in InFlight : Deliver(o)

EndpointSpec == EndpointInit /\ [][EndpointNext]_vars

\* ------------------------------------------------------------- steps
Saves == {"insert", "update"}

\* The step sends the request o.
Starts(o) ==
  /\ CopiesIn(o, ops') > CopiesIn(o, ops)
  /\ BagCardinality(ops') > BagCardinality(ops)

\* The store (or the service) answers the request o, which becomes o2.
Moves(o, o2) ==
  /\ o # o2
  /\ CopiesIn(o, ops') < CopiesIn(o, ops)
  /\ CopiesIn(o2, ops') > CopiesIn(o2, ops)
  /\ BagCardinality(ops') = BagCardinality(ops)

\* The handler of the request o resumes and finishes.
Returns(o) ==
  /\ CopiesIn(o, ops') < CopiesIn(o, ops)
  /\ BagCardinality(ops') < BagCardinality(ops)

Summarizing == { o \in InFlight : o.kind = "summarize" }

\* Ids the store has generated and holds no more.
Deleted(rows, next) == (1..(next - 1)) \ Ids(rows)

\* ------------------------------------------------------------- claims

\* C1: every generateSummary call that ends, at whichever stage, resets the
\* generating marker to null, and the marker is null whenever no summarization
\* is in flight.
GeneratingMarkerCleared ==
  /\ [](Summarizing = {} => generatingSummary = NoId)
  /\ [][\A o \in Summarizing : Returns(o) => generatingSummary' = NoId]_vars

\* C1 witness: a summarization has just failed, none is in flight and the
\* marker is null.
GeneratingMarkerClearedWitness ==
  /\ toast = "Failed to generate summary"
  /\ Summarizing = {}
  /\ generatingSummary = NoId

\* C2: while a summarization of note N is in flight, the generating flag of N
\* is true (generatingSummary = N), whatever else happens in the meantime.
GeneratingWhileInFlight ==
  \A o \in Summarizing : generatingSummary = o.noteId

\* C3: an update through saveNote changes neither the persisted summary of the
\* row (when the store executes it) nor the summary of the matching in-memory
\* entry (when saveNote resumes).
UpdateKeepsSummary ==
  [][\A o \in InFlight : o.kind = "update" =>
       /\ \A o2 \in BagToSet(ops') :
            (Moves(o, o2) /\ o.noteId \in Ids(store)) =>
              /\ o.noteId \in Ids(store')
              /\ RowOf(store', o.noteId).summary = RowOf(store, o.noteId).summary
       /\ Returns(o) =>
            /\ Len(notes') = Len(notes)
            /\ \A i \in 1..Len(notes) :
                 notes[i].id = o.noteId => notes'[i].summary = notes[i].summary]_vars

\* C4: a save attempt with both fields blank after trimming starts no save,
\* changes nothing but the fields and leaves the editor open; no row with an
\* empty title and an empty content is ever in the store.  (The step that
\* closes the editor also empties the fields; it is told apart by the editor
\* being closed with both fields empty.)
EmptySaveIsNoOp ==
  /\ [](\A i \in 1..Len(store) : ~(store[i].title = <<>> /\ store[i].content = <<>>))
  /\ [][/\ \A o \in BagToSet(ops') :
             (o.kind \in Saves /\ Starts(o)) =>
               ~(Trim(title') = <<>> /\ Trim(content') = <<>>)
        /\ ( /\ isEditorOpen /\ editingNote' = editingNote
             /\ <<title', content'>> # <<title, content>>
             /\ Trim(title') = <<>> /\ Trim(content') = <<>>
             /\ (isEditorOpen' \/ <<title', content'>> # << <<>>, <<>> >>) ) =>
               /\ isEditorOpen'
               /\ UNCHANGED <<store, nextId, notes, loading, savingNote,
                              generatingSummary, requests, ops>>]_vars

\* C4 witness: the editor is still open on whitespace-only content after a
\* save attempt, with no save in flight.
EmptySaveIsNoOpWitness ==
  /\ isEditorOpen
  /\ title = <<>>
  /\ content = <<" ">>
  /\ ~savingNote
  /\ ops = EmptyBag

\* C5: a save sends the trimmed content and the trimmed title, or the
\* placeholder 'Untitled Note' when the trimmed title is empty, and the store
\* writes exactly the title and the content it was sent.
PlaceholderTitle ==
  [][/\ \A o \in BagToSet(ops') :
          (o.kind \in Saves /\ Starts(o)) =>
            /\ o.content = Trim(content')
            /\ o.title = IF Trim(title') = <<>> THEN UntitledNote ELSE Trim(title')
     /\ \A o \in InFlight, o2 \in BagToSet(ops') :
          (o.kind \in Saves /\ Moves(o, o2) /\ o2.result = "ok") =>
            /\ store'[1].title = o.title
            /\ store'[1].content = o.content
            /\ store'[1].id = IF o.kind = "insert" THEN nextId ELSE o.noteId]_vars

\* C5 witness: a create has just returned a row titled with the placeholder.
PlaceholderTitleWitness ==
  /\ toast = "Note created"
  /\ notes # <<>>
  /\ notes[1].title = UntitledNote
  /\ notes[1].content = <<"a">>

\* C6: a successful delete removes the row, a removed row never comes back,
\* and a select returns rows of the table only; so no fetch that the store
\* executes after the delete of N returns N.
DeletedNeverFetched ==
  [][/\ Deleted(store, nextId) \subseteq Deleted(store', nextId')
     /\ \A o \in InFlight, o2 \in BagToSet(ops') :
          (o.phase = "sent" /\ Moves(o, o2) /\ o2.result = "ok") =>
            /\ o.kind = "delete" => o.noteId \notin Ids(store')
            /\ o.kind = "fetch" => Ids(o2.data) \cap Deleted(store, nextId) = {}]_vars

\* C6 witness: note N is deleted, an update of N was executed afterwards and
\* failed, and a fetch has been answered without N.
DeletedNeverFetchedWitness ==
  \E f \in InFlight, u \in InFlight :
    /\ f.kind = "fetch" /\ f.phase = "done" /\ f.result = "ok"
    /\ u.kind = "update" /\ u.phase = "done"
    /\ u.noteId \in Deleted(store, nextId)
    /\ u.noteId \notin Ids(f.data)
    /\ u.noteId \notin Ids(notes)

\* C7: when saveNote resumes, the saving flag is cleared; the editor is
\* closed (and editingNote reset) if the store call succeeded, and otherwise
\* isEditorOpen and editingNote are left as they were and the error
\* notification is raised.
EditorClosesOnlyOnSuccess ==
  [][\A o \in InFlight : (o.kind \in Saves /\ Returns(o)) =>
       /\ ~savingNote'
       /\ IF o.result = "ok"
          THEN ~isEditorOpen' /\ editingNote' = NoNote
          ELSE /\ UNCHANGED <<isEditorOpen, editingNote>>
               /\ toast' = "Error saving note"]_vars

\* C7 witness: a save has just failed and the editor is still open on the
\* note it was editing.
EditorClosesOnlyOnSuccessWitness ==
  /\ toast = "Error saving note"
  /\ isEditorOpen
  /\ editingNote # NoNote
  /\ ~savingNote

\* C8: when fetchNotes, saveNote or deleteNote resumes from a failed store
\* call, the in-memory list is the same sequence as before and an error
\* notification is raised.
FailedStoreCallKeepsList ==
  [][\A o \in InFlight :
       (o.kind \in {"fetch", "delete"} \cup Saves /\ o.result # "ok" /\ Returns(o)) =>
         /\ notes' = notes
         /\ toast' = CASE o.kind = "fetch" /\ o.result = "error" -> "Error fetching notes"
                       [] o.kind = "fetch" /\ o.result = "throw" -> "Error"
                       [] o.kind \in Saves -> "Error saving note"
                       [] o.kind = "delete" -> "Error deleting note"]_vars

\* C8 witness: a delete has just failed and the note is still listed.
FailedStoreCallKeepsListWitness ==
  /\ toast = "Error deleting note"
  /\ Len(notes) = 2
  /\ Ids(notes) = Ids(store)

\* C9: no summarization request is ever in flight for a content that is blank
\* after trimming, and the step that raises the 'Cannot summarize' notice
\* sends nothing, leaves the generating marker alone and writes nothing.
BlankContentNotSummarized ==
  /\ [](\A o \in Summarizing : Trim(o.content) # <<>>)
  /\ [][toast' = "Cannot summarize" =>
          UNCHANGED <<store, nextId, notes, generatingSummary, requests, ops>>]_vars

\* C9 witness: the notice has just been raised for a listed note without
\* content, and nothing is in flight.
BlankContentNotSummarizedWitness ==
  /\ toast = "Cannot summarize"
  /\ \E i \in 1..Len(notes) : notes[i].content = <<>>
  /\ generatingSummary = NoId
  /\ ops = EmptyBag

\* C10: when a summarize call resumes from a successful store call, the
\* persisted summary and the in-memory summary of the note are the value the
\* call received, and the list is otherwise the same.
SummaryOverwritten ==
  [][\A o \in Summarizing : (o.result = "ok" /\ Returns(o)) =>
       /\ o.noteId \in Ids(store') =>
            RowOf(store', o.noteId).summary = o.summary
       /\ Len(notes') = Len(notes)
       /\ \A i \in 1..Len(notes) :
            IF notes[i].id = o.noteId
            THEN notes'[i] = [notes[i] EXCEPT !.summary = o.summary]
            ELSE notes'[i] = notes[i]]_vars

\* C11: when a summarize call ends in a failure (the service failed, the
\* response had no summary, the call threw, or the store refused the update),
\* the error notification is raised and the in-memory list is the same
\* sequence as before; a summarize call changes the in-memory list only when
\* the store answered its update without an error.
SummarizeFailureKeepsList ==
  [][\A o \in Summarizing : Returns(o) =>
       /\ (o.phase = "invoking" \/ o.result # "ok") =>
            /\ notes' = notes
            /\ toast' = "Failed to generate summary"
       /\ notes' # notes => (o.phase = "done" /\ o.result = "ok")]_vars

\* C11 witness: a summarization has just failed, nothing is in flight and the
\* list still shows the rows of the store, the second without a summary.
SummarizeFailureKeepsListWitness ==
  /\ toast = "Failed to generate summary"
  /\ ops = EmptyBag
  /\ Len(notes) = 2
  /\ notes = store
  /\ \E i \in 1..Len(notes) : notes[i].summary = NoSummary

\* A letter matches itself and its other case.
SameLetter(a, b) ==
  \/ a = b
  \/ \E k \in 1..Len(UpperCaseLetters) : {a, b} = {UpperCaseLetters[k], LowerCaseLetters[k]}

\* term occurs in text at some offset, letter case apart.
ContainsIgnoringCase(text, term) ==
  \E k \in 0..(Len(text) - Len(term)) :
    \A j \in 1..Len(term) : SameLetter(text[k + j], term[j])

\* The positions of the notes one of whose fields contains the term.
Matching ==
  { i \in 1..Len(notes) :
      \/ ContainsIgnoringCase(notes[i].title, searchTerm)
      \/ ContainsIgnoringCase(notes[i].content, searchTerm)
      \/ (notes[i].summary # NoSummary
            /\ ContainsIgnoringCase(notes[i].summary, searchTerm)) }

\* C12: the visible list is the notes of the in-memory list, in list order,
\* whose title, content or present summary contains the search term letter
\* case apart; an empty term shows every note; 'No matching notes' is rendered
\* exactly when the list is not empty and no note matches.
VisibleListIsTheMatches ==
  LET shown == FilteredNotes(notes, searchTerm)
  IN /\ Len(shown) = Cardinality(Matching)
     /\ \A k \in 1..Len(shown) :
          shown[k] = notes[CHOOSE i \in Matching :
                             Cardinality({ j \in Matching : j < i }) = k - 1]
     /\ searchTerm = <<>> => shown = notes
     /\ NoMatchingNotes <=> (notes # <<>> /\ Matching = {})

\* C12 witness: of two notes the term, in another letter case, is found in
\* the summary of the second only, which alone is visible.
VisibleListIsTheMatchesWitness ==
  /\ searchTerm = <<"n", "O">>
  /\ Len(notes) = 2
  /\ notes[1].content = <<"o", "n">>
  /\ notes[2].summary = <<"n", "o">>
  /\ FilteredNotes(notes, searchTerm) = <<notes[2]>>
  /\ ~NoMatchingNotes

Responded == { o \in InFlight : o.kind = "http" /\ o.phase = "responded" }

\* C13: the function answers a request whose content is missing or empty
\* with 400 and {error} without calling the completions endpoint; answers 500
\* with {error} when the call is not ok, returns no choices or an empty
\* completion, or something throws; answers 200 with {summary} only for a
\* non-empty completion, which is the summary; and every response, the
\* preflight's too, carries the CORS headers.
EndpointResponses ==
  \A o \in Responded :
    /\ CorsHeaders \subseteq o.headers
    /\ o.method = "OPTIONS" => (o.status = 200 /\ ~o.called)
    /\ (o.method # "OPTIONS" /\ o.body.parses
          /\ (~o.body.hasContent \/ o.body.content = <<>>)) =>
         (o.status = 400 /\ o.error /\ ~o.called)
    /\ (o.method # "OPTIONS" /\ ~o.body.parses) => (o.status = 500 /\ o.error)
    /\ (o.called /\ ~(o.upstream.outcome = "completion" /\ o.upstream.completion # <<>>)) =>
         (o.status = 500 /\ o.error)
    /\ (o.method # "OPTIONS" /\ o.status = 200) =>
         /\ o.called /\ ~o.error
         /\ o.upstream.outcome = "completion"
         /\ o.upstream.completion # <<>>
         /\ o.summary = o.upstream.completion
    /\ o.status \in {200, 400, 500}

\* C13 witness: a request with an empty content has been refused with 400
\* while another has been answered 200 with the completion.
EndpointResponsesWitness ==
  \E o \in Responded, p \in Responded :
    /\ o.body = Body(TRUE, TRUE, <<>>) /\ o.method = "POST" /\ o.status = 400
    /\ p.status = 200 /\ p.summary = <<"s">>

\* C14: the late write of a summarization whose note was deleted in the
\* meantime affects no row and re-creates none; when the call resumes the
\* note is not put back into the in-memory list (no id is added, and the list
\* is untouched when the note is no longer in it) and the generating marker
\* is cleared.
LateSummaryOfDeletedNote ==
  [][\A o \in Summarizing : o.noteId \in Deleted(store, nextId) =>
       /\ \A o2 \in BagToSet(ops') : (o.phase = "sent" /\ Moves(o, o2)) =>
            /\ store' = store
            /\ o.noteId \notin Ids(store')
       /\ (o.phase = "done" /\ Returns(o)) =>
            /\ Ids(notes') \subseteq Ids(notes)
            /\ o.noteId \notin Ids(notes) => notes' = notes
            /\ generatingSummary' = NoId]_vars

\* C14 witness: note 1 was deleted while its summarization was in flight;
\* the summarization has just returned, note 2 alone is listed and stored,
\* without a summary, and the marker is null.
LateSummaryOfDeletedNoteWitness ==
  /\ toast = "Summary generated!"
  /\ Deleted(store, nextId) = {1}
  /\ Ids(notes) = {2}
  /\ notes = store
  /\ notes[1].summary = NoSummary
  /\ generatingSummary = NoId

\* C15: when a create resumes from a successful store call, the returned row
\* is the head of the list and the previous entries follow in their order;
\* when an update resumes from one, the list keeps its length and the id at
\* every position, the entries with the id of the update take the returned
\* title and content, and every other entry is unchanged.
SaveKeepsOtherEntries ==
  [][\A o \in InFlight : (o.kind \in Saves /\ o.result = "ok" /\ Returns(o)) =>
       IF o.kind = "insert"
       THEN /\ Len(notes') = Len(notes) + 1
            /\ notes'[1] = o.data[1]
            /\ \A i \in 1..Len(notes) : notes'[i + 1] = notes[i]
       ELSE /\ Len(notes') = Len(notes)
            /\ \A i \in 1..Len(notes) :
                 /\ notes'[i].id = notes[i].id
                 /\ notes[i].id # o.noteId => notes'[i] = notes[i]
                 /\ notes[i].id = o.noteId =>
                      /\ notes'[i].title = o.data[1].title
                      /\ notes'[i].content = o.data[1].content]_vars

\* C15 witness: note 1, the second entry of the list, has just been updated:
\* it is still the second entry, with the new title, while the store has it
\* first.
SaveKeepsOtherEntriesWitness ==
  /\ toast = "Note updated"
  /\ Len(notes) = 2
  /\ notes[1].id = 2
  /\ notes[2].id = 1
  /\ notes[2].title = <<"A">>
  /\ store # <<>> /\ store[1].id = 1

\* The notes of a list, as a set.
Entries(rows) == { rows[i] : i \in 1..Len(rows) }

\* C16: whenever no fetch, save, delete or summarize is in flight, the
\* in-memory list holds exactly the notes the store holds: the same ids and,
\* for each id, the same title, content and summary.  Stated for the states
\* where the list is not empty: a first fetch that fails leaves it empty
\* whatever the store holds, which is a reported error and no interleaving.
QuiescentConsistency ==
  (ops = EmptyBag /\ notes # <<>>) => Entries(notes) = Entries(store)

\* C17: at most one save is in flight at any time: while saveNote is pending
\* neither the Save button nor Ctrl+Enter starts a second one.
AtMostOneSaveInFlight ==
  \A o \in InFlight, p \in InFlight :
    (o.kind \in Saves /\ p.kind \in Saves) => (o = p /\ CopiesIn(o, ops) = 1)

\* C18: the completion of a save closes only the editor session it was
\* started from.  An editor that is open on another note than the one the
\* save was sent for (another note, or a new note for the save of an
\* existing one) is a later session: when the save resumes, that editor
\* stays open and keeps its editingNote.
SaveClosesOwnSessionOnly ==
  [][\A o \in InFlight :
       (o.kind \in Saves /\ Returns(o) /\ isEditorOpen /\ editingNote.id # o.noteId) =>
         (isEditorOpen' /\ editingNote' = editingNote)]_vars

\* C19: the in-memory list never holds two entries with the same id.
NoDuplicateIds ==
  \A i \in 1..Len(notes), j \in 1..Len(notes) : notes[i].id = notes[j].id => i = j

====
